---------------------------- MODULE Spec2Model ----------------------------
(***************************************************************************)
(* A model of the easymd Horus plugin.                                     *)
(*                                                                         *)
(*   launcher  easy-md/Include/easymd.py             runMDSimulation       *)
(*   worker    easy-md/Include/run_md_simulation.py  main                  *)
(*                                                                         *)
(* Spec        one invocation of runMDSimulation together with its child   *)
(*             process.  The child is `micromamba run ... python`, an      *)
(*             external process: what it writes on the merged              *)
(*             stdout/stderr pipe and its exit code are inputs.            *)
(*                                                                         *)
(* SpecWorker  one run of the worker script: its argv, the parameter file, *)
(*             the files on disk and the outcome of every call into the    *)
(*             easy_md toolkit are inputs.                                 *)
(*                                                                         *)
(* Text is a sequence of tokens: ":" and " " (one whitespace character)    *)
(* are tokens of their own, every other token is a run of characters that  *)
(* holds no colon and neither starts nor ends with whitespace.             *)
(***************************************************************************)
EXTENDS Integers, Sequences, FiniteSets

(***************************************************************************)
(* Bounds of the model.                                                    *)
(***************************************************************************)
\* the child writes at most MaxLines lines in one run
MaxLines == 2

(***************************************************************************)
(* Python values.                                                          *)
(***************************************************************************)
PyNone == [t |-> "NoneType", v |-> <<>>]
\* a str; its text is a sequence of tokens, <<>> is the empty string
PyStr(s) == [t |-> "str", v |-> s]
PyInt(n) == [t |-> "int", v |-> n]
\* a value json cannot encode (a pathlib.Path, bytes, a set ...)
PyObject == [t |-> "object", v |-> <<>>]

\* json.dump raises TypeError on a value that is not str, int or None
JsonSerializable(val) == val.t \in {"str", "int", "NoneType"}

(***************************************************************************)
(* JSON text, as json.dump(params, f, indent=2) writes it and json.load    *)
(* reads it.  A text is a sequence of tokens; a string value is the        *)
(* sequence of its tokens.                                                 *)
(***************************************************************************)
SP == " "
COLON == ":"
QUOTE == "\""
BACKSLASH == "\\"
NON_ASCII == "é"
NON_ASCII_ESCAPE == "u00e9"
NULL == "null"
OPEN == "{"
CLOSE == "}"
COMMA == ","
NEWLINE == "\n"
INDENT == "\n  "

\* str() of a non-negative integer, as a sequence of digit tokens
DigitChars == <<"0", "1", "2", "3", "4", "5", "6", "7", "8", "9">>

RECURSIVE NatToStr(_)
NatToStr(n) ==
    IF n < Len(DigitChars) THEN <<DigitChars[n + 1]>>
    ELSE NatToStr(n \div Len(DigitChars))
         \o <<DigitChars[(n % Len(DigitChars)) + 1]>>

\* str() of an integer
IntToStr(n) == IF n < 0 THEN <<"-">> \o NatToStr(0 - n) ELSE NatToStr(n)

\* int() of a decimal digit
DigitValue(c) == (CHOOSE i \in 1..Len(DigitChars) : DigitChars[i] = c) - 1

\* int() of a sequence of digit tokens
RECURSIVE StrToNat(_)
StrToNat(ds) ==
    IF ds = <<>> THEN 0
    ELSE StrToNat(SubSeq(ds, 1, Len(ds) - 1)) * Len(DigitChars)
         + DigitValue(ds[Len(ds)])

\* json.dump, ensure_ascii=True: a quote and a backslash are escaped by a
\* backslash, a non-ASCII character is written as \uXXXX
EscapeToken(tok) ==
    IF tok = QUOTE THEN <<BACKSLASH, QUOTE>>
    ELSE IF tok = BACKSLASH THEN <<BACKSLASH, BACKSLASH>>
    ELSE IF tok = NON_ASCII THEN <<BACKSLASH, NON_ASCII_ESCAPE>>
    ELSE <<tok>>

RECURSIVE Escape(_)
Escape(str) ==
    IF str = <<>> THEN <<>> ELSE EscapeToken(Head(str)) \o Escape(Tail(str))

\* JsonEncode writing an int between quotes
JsonEncode_IntAsString(val) ==
    IF val.t = "str" THEN <<QUOTE>> \o Escape(val.v) \o <<QUOTE>>
    ELSE IF val.t = "int" THEN <<QUOTE>> \o IntToStr(val.v) \o <<QUOTE>>
    ELSE <<NULL>>

\* json.dump of one value: a str, an int or None
JsonEncode(val) ==
    IF val.t = "str" THEN <<QUOTE>> \o Escape(val.v) \o <<QUOTE>>
    ELSE IF val.t = "int" THEN IntToStr(val.v)
    ELSE <<NULL>>

\* easymd.py:114-122: the keys of params, in the order of the dict
ParamKeys ==
    <<"protein_file", "ligand_file", "md_steps", "md_save_interval",
      "platform_name", "platform_precision", "starting_state_path">>

\* the members of the object from the i-th key on, one per line
RECURSIVE DumpMembers(_, _, _)
DumpMembers(d, keys, i) ==
    IF i > Len(keys) THEN <<>>
    ELSE <<INDENT, QUOTE, keys[i], QUOTE, COLON, SP>>
         \o JsonEncode(d[keys[i]])
         \o (IF i < Len(keys) THEN <<COMMA>> ELSE <<>>)
         \o DumpMembers(d, keys, i + 1)

\* easymd.py:129: json.dump(params, param_file, indent=2)
JsonDump(d, keys) == <<OPEN>> \o DumpMembers(d, keys, 1) \o <<NEWLINE, CLOSE>>

\* the inverse of EscapeToken for the token that follows a backslash
UnescapeToken(tok) == IF tok = NON_ASCII_ESCAPE THEN NON_ASCII ELSE tok

\* json.load of a string, from the token after its opening quote: the
\* value and the text after the closing quote
RECURSIVE ParseString(_)
ParseString(t) ==
    IF t = <<>> THEN [v |-> <<>>, rest |-> <<>>]
    ELSE IF Head(t) = QUOTE THEN [v |-> <<>>, rest |-> Tail(t)]
    ELSE IF Head(t) = BACKSLASH /\ Len(t) > 1
    THEN LET r == ParseString(Tail(Tail(t)))
         IN  [v |-> <<UnescapeToken(t[2])>> \o r.v, rest |-> r.rest]
    ELSE LET r == ParseString(Tail(t))
         IN  [v |-> <<Head(t)>> \o r.v, rest |-> r.rest]

\* the digits a text begins with
RECURSIVE TakeDigits(_)
TakeDigits(t) ==
    IF t = <<>> \/ \A i \in 1..Len(DigitChars) : DigitChars[i] /= Head(t)
    THEN <<>>
    ELSE <<Head(t)>> \o TakeDigits(Tail(t))

\* json.load of one value: the value and the text after it
ParseValue(t) ==
    IF Head(t) = QUOTE
    THEN LET r == ParseString(Tail(t))
         IN  [val |-> PyStr(r.v), rest |-> r.rest]
    ELSE IF Head(t) = NULL
    THEN [val |-> PyNone, rest |-> Tail(t)]
    ELSE IF Head(t) = "-"
    THEN LET ds == TakeDigits(Tail(t))
         IN  [val |-> PyInt(0 - StrToNat(ds)),
              rest |-> SubSeq(t, Len(ds) + 2, Len(t))]
    ELSE LET ds == TakeDigits(t)
         IN  [val |-> PyInt(StrToNat(ds)),
              rest |-> SubSeq(t, Len(ds) + 1, Len(t))]

\* json.load of the members of an object, from the white space before a
\* key: the sequence of (key, value)
RECURSIVE ParseMembers(_)
ParseMembers(t) ==
    IF Len(t) < 3 \/ Head(t) /= INDENT THEN <<>>
    ELSE LET k == ParseString(Tail(Tail(t)))
             v == ParseValue(Tail(Tail(k.rest)))
             rest == IF v.rest /= <<>> /\ Head(v.rest) = COMMA
                     THEN Tail(v.rest) ELSE v.rest
         IN  <<[key |-> k.v[1], val |-> v.val]>> \o ParseMembers(rest)

\* run_md_simulation.py:29-30: json.load(f), a dict: the value of a key
\* written twice is the last one
JsonLoad(text) ==
    LET ms == ParseMembers(Tail(text))
        last(k) == CHOOSE i \in DOMAIN ms :
                       /\ ms[i].key = k
                       /\ \A j \in DOMAIN ms : ms[j].key = k => j <= i
    IN  [k \in {ms[i].key : i \in DOMAIN ms} |-> ms[last(k)].val]

(***************************************************************************)
(* Text operations of the read loop (easymd.py:173-180).                   *)
(***************************************************************************)
TOPOLOGY_KEY == "TOPOLOGY_FILE"
TRAJECTORY_KEY == "TRAJECTORY_FILE"
TopologyPrefix == <<TOPOLOGY_KEY, COLON>>
TrajectoryPrefix == <<TRAJECTORY_KEY, COLON>>

\* str.rstrip(): drop trailing whitespace
RECURSIVE RStrip(_)
RStrip(s) ==
    IF s = <<>> THEN <<>>
    ELSE IF s[Len(s)] = SP THEN RStrip(SubSeq(s, 1, Len(s) - 1))
    ELSE s

\* str.lstrip(): drop leading whitespace
RECURSIVE LStrip(_)
LStrip(s) ==
    IF s = <<>> THEN <<>>
    ELSE IF Head(s) = SP THEN LStrip(Tail(s))
    ELSE s

\* str.strip()
Strip(s) == LStrip(RStrip(s))

\* str.startswith(prefix)
StartsWith(s, prefix) ==
    /\ Len(s) >= Len(prefix)
    /\ SubSeq(s, 1, Len(prefix)) = prefix

\* s.split(":", 1)[1]: the text after the first colon (s holds a colon)
RECURSIVE SplitColon1(_)
SplitColon1(s) ==
    IF s = <<>> THEN <<>>
    ELSE IF Head(s) = COLON THEN Tail(s)
    ELSE SplitColon1(Tail(s))

(***************************************************************************)
(* What the child may write: a line is a head followed by a body.          *)
(***************************************************************************)
LineHeads ==
    { <<>>,
      TopologyPrefix,
      TrajectoryPrefix,
      <<SP>> \o TopologyPrefix,
      <<TRAJECTORY_KEY>> }

LineBodies ==
    { <<>>,
      <<"/a/emin.pdb">>,
      <<SP, "C", COLON, "/a/x.dcd", SP>> }

Lines == { h \o b : h \in LineHeads, b \in LineBodies }

\* bytes the text decoder of the pipe rejects (UnicodeDecodeError)
BadBytes == <<"\\xff">>

\* exit statuses of the child (negative: killed by a signal)
ExitCodes == {0, 1, -9}

(***************************************************************************)
(* Inputs of one invocation (easymd.py:97-111).                            *)
(***************************************************************************)
ProteinInputs == {PyNone, PyStr(<<>>), PyStr(<<"/in/protein.pdb">>), PyObject}
LigandInputs == {PyNone, PyStr(<<>>), PyStr(<<"/in/ligand.sdf">>)}
CondaEnvInputs == {PyStr(<<"easymd">>), PyNone}
MdStepsInputs == {PyInt(1000)}
MdSaveIntervalInputs == {PyInt(10)}
PlatformNameInputs == {PyStr(<<"CPU">>)}
PlatformPrecisionInputs == {PyStr(<<"mixed">>)}
StartingStateInputs == {PyStr(<<>>)}

NoParams ==
    [protein_file |-> PyNone, ligand_file |-> PyNone, md_steps |-> PyNone,
     md_save_interval |-> PyNone, platform_name |-> PyNone,
     platform_precision |-> PyNone, starting_state_path |-> PyNone]

NoOutputs == [topology_output |-> PyNone, trajectory_output |-> PyNone]

VARIABLES
    inputs,          \* block.inputs: protein_file, ligand_file
    variables,       \* block.variables
    pc,              \* position of runMDSimulation
    params,          \* the params dict (PyNone fields before line 114)
    tmpExists,       \* the temporary parameter file is on disk
    tmpContent,      \* the text of the parameter file (<<>>: nothing written)
    pathBound,       \* "param_file_path" in locals()
    tmpCreated,      \* number of temporary files this invocation created
    child,           \* "none", "running", "exited"
    spawned,         \* number of child processes this invocation started
    exit_code,       \* the child's exit status (PyNone while it runs)
    pipe,            \* lines written by the child and not yet read
    pipeOpen,        \* the launcher still holds the read end of the pipe
    written,         \* number of lines the child has written
    lines_read,      \* the lines the read loop has taken from p.stdout, raw
    log,             \* the lines the read loop has echoed (print(line))
    topology_file,   \* local of runMDSimulation
    trajectory_file, \* local of runMDSimulation
    return_code,     \* local of runMDSimulation (PyNone until p.wait() returns)
    exc,             \* the exception being handled or raised, "" if none
    outputs,         \* what block.setOutput has been given
    emitted,         \* everything the child has written, in order
    error_msg        \* local of the except clauses (<<>> until bound)

vars == <<inputs, variables, pc, params, tmpExists, tmpContent, pathBound,
          tmpCreated, child, spawned, exit_code, pipe, pipeOpen, written,
          lines_read, log, topology_file, trajectory_file, return_code, exc,
          outputs, emitted, error_msg>>

VARIABLES
    w_argc,            \* len(sys.argv)
    w_file,            \* the parameter file: readable ("ok", "missing",
                       \* "invalid") and its content
    w_fs,              \* the files that exist
    w_pc,              \* position of main
    w_params,          \* params, once loaded
    w_trace,           \* the stages entered so far, in order
    w_stdout,          \* the lines main has printed
    w_topology_file,   \* local of main
    w_trajectory_file, \* local of main
    w_exit             \* the exit status of the script (PyNone while it runs)

wvars == <<w_argc, w_file, w_fs, w_pc, w_params, w_trace, w_stdout,
           w_topology_file, w_trajectory_file, w_exit>>

\* two invocations of runMDSimulation side by side, each with its worker
VARIABLES
    inv_pc,      \* position of each invocation
    inv_tmp,     \* param_file_path of each invocation ("" before line 130)
    tmp_dir,     \* the files in the temporary directory
    work_dir,    \* for each output file of the working directory, the
                 \* invocation whose worker wrote it last ("none": absent)
    inv_found,   \* what the worker of each invocation resolved, and whose
                 \* file it was
    inv_result   \* what each invocation gave to block.setOutput

tvars == <<inv_pc, inv_tmp, tmp_dir, work_dir, inv_found, inv_result>>

allvars == <<vars, wvars, tvars>>

fileVars == <<tmpExists, tmpContent, pathBound, tmpCreated>>
childVars == <<child, spawned, exit_code, pipe, pipeOpen, written>>
readVars == <<lines_read, log, topology_file, trajectory_file>>
blockVars == <<inputs, variables>>

\* the locals and the surroundings of runMDSimulation at its entry
AtEntry ==
    /\ pc = "start"
    /\ params = NoParams
    /\ tmpExists = FALSE
    /\ tmpContent = <<>>
    /\ pathBound = FALSE
    /\ tmpCreated = 0
    /\ child = "none"
    /\ spawned = 0
    /\ exit_code = PyNone
    /\ pipe = <<>>
    /\ pipeOpen = FALSE
    /\ written = 0
    /\ lines_read = <<>>
    /\ log = <<>>
    /\ topology_file = <<>>
    /\ trajectory_file = <<>>
    /\ return_code = PyNone
    /\ exc = ""
    /\ outputs = NoOutputs
    /\ emitted = <<>>
    /\ error_msg = <<>>

\* runMDSimulation at its entry
LInit ==
    /\ inputs \in [protein_file : ProteinInputs, ligand_file : LigandInputs]
    /\ variables \in [md_steps : MdStepsInputs,
                     md_save_interval : MdSaveIntervalInputs,
                     platform_name : PlatformNameInputs,
                     platform_precision : PlatformPrecisionInputs,
                     starting_state_path : StartingStateInputs,
                     conda_env : CondaEnvInputs]
    /\ AtEntry

(***************************************************************************)
(* runMDSimulation                                                         *)
(***************************************************************************)

\* GetInputs without the test of line 102
GetInputs_NoLigandTest ==
    /\ pc = "start"
    /\ IF inputs.protein_file = PyNone
       THEN /\ pc' = "raised"
            /\ exc' = "Exception: Protein file path is required."
            /\ UNCHANGED params
       ELSE /\ pc' = "create_tmp"
            /\ params' = [protein_file |-> inputs.protein_file,
                          ligand_file |-> inputs.ligand_file,
                          md_steps |-> variables.md_steps,
                          md_save_interval |-> variables.md_save_interval,
                          platform_name |-> variables.platform_name,
                          platform_precision |-> variables.platform_precision,
                          starting_state_path |-> variables.starting_state_path]
            /\ UNCHANGED exc
    /\ UNCHANGED <<wvars, tvars, emitted, error_msg>>
    /\ UNCHANGED <<tmpExists, tmpContent, pathBound, tmpCreated, child,
                   spawned, exit_code, pipe, pipeOpen, written, lines_read,
                   log, topology_file, trajectory_file, inputs, variables,
                   return_code, outputs>>

\* easymd.py:97-122: read the inputs, refuse a missing one, build params
GetInputs ==
    /\ pc = "start"
    /\ IF inputs.protein_file = PyNone
       THEN /\ pc' = "raised"
            /\ exc' = "Exception: Protein file path is required."
            /\ UNCHANGED params
       ELSE IF inputs.ligand_file = PyNone
       THEN /\ pc' = "raised"
            /\ exc' = "Exception: Ligand file path is required."
            /\ UNCHANGED params
       ELSE /\ pc' = "create_tmp"
            /\ params' = [protein_file |-> inputs.protein_file,
                          ligand_file |-> inputs.ligand_file,
                          md_steps |-> variables.md_steps,
                          md_save_interval |-> variables.md_save_interval,
                          platform_name |-> variables.platform_name,
                          platform_precision |-> variables.platform_precision,
                          starting_state_path |-> variables.starting_state_path]
            /\ UNCHANGED exc
    /\ UNCHANGED <<wvars, tvars, emitted, error_msg>>
    /\ UNCHANGED <<fileVars, childVars, readVars, blockVars, return_code, outputs>>

\* True when every value of the dict can be encoded by json.dump
AllSerializable(d) == \A k \in DOMAIN d : JsonSerializable(d[k])

\* easymd.py:126-128: tempfile.NamedTemporaryFile(delete=False) creates the
\* file, or raises OSError when the temporary directory refuses it
CreateTempFile ==
    /\ pc = "create_tmp"
    /\ \/ /\ tmpExists' = TRUE
          /\ tmpCreated' = tmpCreated + 1
          /\ pc' = "dump"
          /\ UNCHANGED exc
       \/ /\ pc' = "handler"
          /\ exc' = "OSError"
          /\ UNCHANGED <<tmpExists, tmpCreated>>
    /\ UNCHANGED <<wvars, tvars, emitted, error_msg>>
    /\ UNCHANGED <<tmpContent, pathBound, params, childVars, readVars,
                   blockVars, return_code, outputs>>

\* easymd.py:129-130: json.dump(params, param_file), then
\* param_file_path = param_file.name.  A TypeError of json.dump leaves the
\* with block before line 130 runs: the file is closed and stays on disk
\* (delete=False), and param_file_path is never bound.
DumpParams ==
    /\ pc = "dump"
    /\ IF AllSerializable(params)
       THEN /\ tmpContent' = JsonDump(params, ParamKeys)
            /\ pathBound' = TRUE
            /\ pc' = "build_cmd"
            /\ UNCHANGED exc
       ELSE /\ pc' = "handler"
            /\ exc' = "TypeError"
            /\ UNCHANGED <<tmpContent, pathBound>>
    /\ UNCHANGED <<wvars, tvars, emitted, error_msg>>
    /\ UNCHANGED <<tmpExists, tmpCreated, params, childVars, readVars,
                   blockVars, return_code, outputs>>

\* easymd.py:132-155: build cmd and print it; ' '.join(cmd) raises
\* TypeError when conda_env is not a string
BuildCommand ==
    /\ pc = "build_cmd"
    /\ IF variables.conda_env.t = "str"
       THEN /\ pc' = "spawn"
            /\ UNCHANGED exc
       ELSE /\ pc' = "handler"
            /\ exc' = "TypeError"
    /\ UNCHANGED <<wvars, tvars, emitted, error_msg>>
    /\ UNCHANGED <<fileVars, params, childVars, readVars, blockVars,
                   return_code, outputs>>

\* Spawn removing the parameter file as soon as the child is started
Spawn_UnlinksEarly ==
    /\ pc = "spawn"
    /\ \/ /\ child' = "running"
          /\ spawned' = spawned + 1
          /\ pipeOpen' = TRUE
          /\ tmpExists' = FALSE
          /\ pc' = "read"
          /\ UNCHANGED exc
       \/ /\ pc' = "handler"
          /\ exc' = "OSError"
          /\ UNCHANGED <<child, spawned, pipeOpen, tmpExists>>
    /\ UNCHANGED <<wvars, tvars, emitted, error_msg>>
    /\ UNCHANGED <<tmpContent, pathBound, tmpCreated, params, exit_code, pipe,
                   written, readVars, blockVars, return_code, outputs>>

\* easymd.py:158-169: subprocess.Popen starts the child with stdout and
\* stderr on one pipe, or raises OSError (no such binary)
Spawn ==
    /\ pc = "spawn"
    /\ \/ /\ child' = "running"
          /\ spawned' = spawned + 1
          /\ pipeOpen' = TRUE
          /\ pc' = "read"
          /\ UNCHANGED exc
       \/ /\ pc' = "handler"
          /\ exc' = "OSError"
          /\ UNCHANGED <<child, spawned, pipeOpen>>
    /\ UNCHANGED <<wvars, tvars, emitted, error_msg>>
    /\ UNCHANGED <<fileVars, params, exit_code, pipe, written, readVars,
                   blockVars, return_code, outputs>>

\* ParseLine keeping the first capture of a key instead of the last
ParseLine_FirstWins(line, captured) ==
    IF StartsWith(line, TopologyPrefix) /\ captured.topology_file = <<>>
    THEN [captured EXCEPT !.topology_file = Strip(SplitColon1(line))]
    ELSE IF StartsWith(line, TrajectoryPrefix) /\ captured.trajectory_file = <<>>
    THEN [captured EXCEPT !.trajectory_file = Strip(SplitColon1(line))]
    ELSE captured

\* ParseLine forgetting what it captured when a line carries no key
ParseLine_ResetsOnOtherLine(line, captured) ==
    IF StartsWith(line, TopologyPrefix)
    THEN [captured EXCEPT !.topology_file = Strip(SplitColon1(line))]
    ELSE IF StartsWith(line, TrajectoryPrefix)
    THEN [captured EXCEPT !.trajectory_file = Strip(SplitColon1(line))]
    ELSE [topology_file |-> <<>>, trajectory_file |-> <<>>]

\* easymd.py:177-180: what one line does to the two captured values
ParseLine(line, captured) ==
    IF StartsWith(line, TopologyPrefix)
    THEN [captured EXCEPT !.topology_file = Strip(SplitColon1(line))]
    ELSE IF StartsWith(line, TrajectoryPrefix)
    THEN [captured EXCEPT !.trajectory_file = Strip(SplitColon1(line))]
    ELSE captured

\* easymd.py:172-180: one turn of `for line in p.stdout`
ReadLine ==
    /\ pc = "read"
    /\ pipe /= <<>>
    /\ Head(pipe) /= BadBytes
    /\ LET line == RStrip(Head(pipe))
           captured == ParseLine(line, [topology_file |-> topology_file,
                                        trajectory_file |-> trajectory_file])
       IN  /\ lines_read' = Append(lines_read, Head(pipe))
           /\ log' = Append(log, line)
           /\ topology_file' = captured.topology_file
           /\ trajectory_file' = captured.trajectory_file
    /\ pipe' = Tail(pipe)
    /\ UNCHANGED <<wvars, tvars, emitted, error_msg>>
    /\ UNCHANGED <<pc, fileVars, params, child, spawned, exit_code, pipeOpen,
                   written, blockVars, return_code, exc, outputs>>

\* easymd.py:172: the text layer of p.stdout raises UnicodeDecodeError; the
\* exception leaves `with subprocess.Popen`, whose __exit__ closes the pipe
\* and then waits for the child
ReadDecodeError ==
    /\ pc = "read"
    /\ pipe /= <<>>
    /\ Head(pipe) = BadBytes
    /\ pipe' = <<>>
    /\ pipeOpen' = FALSE
    /\ exc' = "UnicodeDecodeError"
    /\ pc' = "exit_wait"
    /\ UNCHANGED <<wvars, tvars, emitted, error_msg>>
    /\ UNCHANGED <<fileVars, params, child, spawned, exit_code, written,
                   readVars, blockVars, return_code, outputs>>

\* EndOfStream leaving the loop with lines still in the pipe
EndOfStream_IgnoresBuffered ==
    /\ pc = "read"
    /\ child = "exited"
    /\ pc' = "wait"
    /\ UNCHANGED <<wvars, tvars, emitted, error_msg>>
    /\ UNCHANGED <<fileVars, params, childVars, readVars, blockVars,
                   return_code, exc, outputs>>

\* easymd.py:172: the loop ends when the child's end of the pipe is closed
\* and everything written has been read
EndOfStream ==
    /\ pc = "read"
    /\ pipe = <<>>
    /\ child = "exited"
    /\ pc' = "wait"
    /\ UNCHANGED <<wvars, tvars, emitted, error_msg>>
    /\ UNCHANGED <<fileVars, params, childVars, readVars, blockVars,
                   return_code, exc, outputs>>

\* Wait without the test of the return code
Wait_NoRaise ==
    /\ pc = "wait"
    /\ child = "exited"
    /\ return_code' = exit_code
    /\ pc' = "unlink"
    /\ pipeOpen' = FALSE
    /\ UNCHANGED <<wvars, tvars, emitted, error_msg>>
    /\ UNCHANGED <<tmpExists, tmpContent, pathBound, tmpCreated, params, child,
                   spawned, exit_code, pipe, written, lines_read, log,
                   topology_file, trajectory_file, inputs, variables, exc,
                   outputs>>

\* Wait testing return_code > 0 instead of return_code != 0
Wait_PositiveOnly ==
    /\ pc = "wait"
    /\ child = "exited"
    /\ return_code' = exit_code
    /\ IF exit_code.v > 0
       THEN /\ pc' = "handler"
            /\ exc' = "CalledProcessError"
            /\ pipeOpen' = FALSE
       ELSE /\ pc' = "unlink"
            /\ pipeOpen' = FALSE
            /\ UNCHANGED exc
    /\ UNCHANGED <<wvars, tvars, emitted, error_msg>>
    /\ UNCHANGED <<tmpExists, tmpContent, pathBound, tmpCreated, params, child,
                   spawned, exit_code, pipe, written, lines_read, log,
                   topology_file, trajectory_file, inputs, variables, outputs>>

\* easymd.py:183-186: return_code = p.wait(); a non-zero code raises
\* CalledProcessError (Popen.__exit__ then closes the pipe)
Wait ==
    /\ pc = "wait"
    /\ child = "exited"
    /\ return_code' = exit_code
    /\ IF exit_code.v /= 0
       THEN /\ pc' = "handler"
            /\ exc' = "CalledProcessError"
            /\ pipeOpen' = FALSE
       ELSE /\ pc' = "unlink"
            /\ pipeOpen' = FALSE
            /\ UNCHANGED exc
    /\ UNCHANGED <<wvars, tvars, emitted, error_msg>>
    /\ UNCHANGED <<fileVars, params, child, spawned, exit_code, pipe, written,
                   readVars, blockVars, outputs>>

\* ExitWait not waiting for the child
ExitWait_NoWait ==
    /\ pc = "exit_wait"
    /\ pc' = "handler"
    /\ UNCHANGED <<wvars, tvars, emitted, error_msg>>
    /\ UNCHANGED <<fileVars, params, childVars, readVars, blockVars,
                   return_code, exc, outputs>>

\* subprocess.Popen.__exit__ on an exception raised inside the with block
\* (easymd.py:162-186): wait for the child, then the exception goes on
ExitWait ==
    /\ pc = "exit_wait"
    /\ child = "exited"
    /\ pc' = "handler"
    /\ UNCHANGED <<wvars, tvars, emitted, error_msg>>
    /\ UNCHANGED <<fileVars, params, childVars, readVars, blockVars,
                   return_code, exc, outputs>>

\* easymd.py:189: os.unlink(param_file_path), FileNotFoundError when the
\* file is gone
Unlink ==
    /\ pc = "unlink"
    /\ IF tmpExists
       THEN /\ tmpExists' = FALSE
            /\ pc' = "set_outputs"
            /\ UNCHANGED exc
       ELSE /\ pc' = "handler"
            /\ exc' = "FileNotFoundError"
            /\ UNCHANGED tmpExists
    /\ UNCHANGED <<wvars, tvars, emitted, error_msg>>
    /\ UNCHANGED <<tmpContent, pathBound, tmpCreated, params, childVars,
                   readVars, blockVars, return_code, outputs>>

\* easymd.py:192-197: block.setOutput for both outputs, then return
SetOutputs ==
    /\ pc = "set_outputs"
    /\ outputs' = [topology_output |-> PyStr(topology_file),
                   trajectory_output |-> PyStr(trajectory_file)]
    /\ pc' = "returned"
    /\ UNCHANGED <<wvars, tvars, emitted, error_msg>>
    /\ UNCHANGED <<fileVars, params, childVars, readVars, blockVars,
                   return_code, exc>>

\* easymd.py:136-140 and 155: ' '.join(cmd)
Cmd ==
    <<"/opt/homebrew/bin/micromamba", SP, "run", SP, "-n", SP>>
    \o variables.conda_env.v
    \o <<SP, "python", SP, "-u", SP, "script_path", SP, "param_file_path">>

\* easymd.py:186: subprocess.CalledProcessError(return_code, cmd); the
\* output and stderr arguments are not given and default to None
CalledProcessError(returncode, cmd) ==
    [returncode |-> returncode, cmd |-> cmd, output |-> PyNone,
     stderr |-> PyNone]

\* str(e) of a CalledProcessError: the command and the status, or the
\* signal when the status is negative
StrCalledProcessError(e) ==
    IF e.returncode.v < 0
    THEN <<"Command", SP>> \o e.cmd \o <<SP, "died with signal", SP>>
         \o NatToStr(0 - e.returncode.v) \o <<".">>
    ELSE <<"Command", SP>> \o e.cmd
         \o <<SP, "returned non-zero exit status", SP>>
         \o NatToStr(e.returncode.v) \o <<".">>

\* the truth value of e.stderr in `if e.stderr:`
Truthy(val) == val.t /= "NoneType" /\ val.v /= <<>>

\* easymd.py:200-203 and 209: the message of the exception to raise
ErrorMessage ==
    IF exc = "CalledProcessError"
    THEN LET e == CalledProcessError(return_code, Cmd)
         IN  <<"Error running MD simulation script", COLON, SP>>
             \o StrCalledProcessError(e)
             \o (IF Truthy(e.stderr)
                 THEN <<"\nError output", COLON, SP>> \o e.stderr.v
                 ELSE <<>>)
    ELSE <<"Error during MD simulation setup", COLON, SP, exc>>

\* easymd.py:199-205 and 208-212: either except clause; error_msg, then the
\* test "param_file_path" in locals() and os.path.exists(param_file_path)
HandlerCheck ==
    /\ pc = "handler"
    /\ error_msg' = ErrorMessage
    /\ IF pathBound /\ tmpExists
       THEN /\ pc' = "handler_unlink"
            /\ UNCHANGED exc
       ELSE /\ pc' = "raised"
            /\ exc' = "Exception"
    /\ UNCHANGED <<wvars, tvars, emitted>>
    /\ UNCHANGED <<fileVars, params, childVars, readVars, blockVars,
                   return_code, outputs>>

\* easymd.py:206-207 and 213-214: os.unlink(param_file_path) and
\* raise Exception(error_msg); FileNotFoundError leaves the handler instead
\* when the file went away after the test
HandlerUnlink ==
    /\ pc = "handler_unlink"
    /\ IF tmpExists
       THEN /\ tmpExists' = FALSE
            /\ exc' = "Exception"
       ELSE /\ exc' = "FileNotFoundError"
            /\ UNCHANGED tmpExists
    /\ pc' = "raised"
    /\ UNCHANGED <<wvars, tvars, emitted, error_msg>>
    /\ UNCHANGED <<tmpContent, pathBound, tmpCreated, params, childVars,
                   readVars, blockVars, return_code, outputs>>

(***************************************************************************)
(* The child process and the rest of the system.                           *)
(***************************************************************************)

\* the child writes one line on its stdout or stderr (easymd.py:164-165:
\* both are the one pipe)
ChildWrite ==
    /\ child = "running"
    /\ pipeOpen
    /\ written < MaxLines
    /\ \E line \in Lines :
         /\ pipe' = Append(pipe, line)
         /\ emitted' = Append(emitted, line)
    /\ written' = written + 1
    /\ UNCHANGED <<wvars, tvars, error_msg>>
    /\ UNCHANGED <<pc, fileVars, params, child, spawned, exit_code, pipeOpen,
                   readVars, blockVars, return_code, exc, outputs>>

\* the child writes bytes that are not valid text
ChildWriteBadBytes ==
    /\ child = "running"
    /\ pipeOpen
    /\ written < MaxLines
    /\ pipe' = Append(pipe, BadBytes)
    /\ emitted' = Append(emitted, BadBytes)
    /\ written' = written + 1
    /\ UNCHANGED <<wvars, tvars, error_msg>>
    /\ UNCHANGED <<pc, fileVars, params, child, spawned, exit_code, pipeOpen,
                   readVars, blockVars, return_code, exc, outputs>>

\* the child exits, which closes its end of the pipe
ChildExit ==
    /\ child = "running"
    /\ \E code \in ExitCodes : exit_code' = PyInt(code)
    /\ child' = "exited"
    /\ UNCHANGED <<wvars, tvars, emitted, error_msg>>
    /\ UNCHANGED <<pc, fileVars, params, spawned, pipe, pipeOpen, written,
                   readVars, blockVars, return_code, exc, outputs>>

\* another process removes the temporary file while the invocation runs
\* (the file lives in the shared temporary directory)
RemovedByOther ==
    /\ pc \notin {"returned", "raised"}
    /\ tmpExists
    /\ tmpExists' = FALSE
    /\ UNCHANGED <<wvars, tvars, emitted, error_msg>>
    /\ UNCHANGED <<pc, tmpContent, pathBound, tmpCreated, params, childVars,
                   readVars, blockVars, return_code, exc, outputs>>

Next ==
    \/ GetInputs
    \/ CreateTempFile
    \/ DumpParams
    \/ BuildCommand
    \/ Spawn
    \/ ReadLine
    \/ ReadDecodeError
    \/ EndOfStream
    \/ Wait
    \/ ExitWait
    \/ Unlink
    \/ SetOutputs
    \/ HandlerCheck
    \/ HandlerUnlink
    \/ ChildWrite
    \/ ChildWriteBadBytes
    \/ ChildExit
    \/ RemovedByOther

\* the launcher with its child taken as a source of lines: the worker
\* script itself is not run
NoWorker ==
    /\ w_argc = 0
    /\ w_file = [readable |-> "missing", content |-> <<>>]
    /\ w_fs = {}
    /\ w_pc = "none"
    /\ w_params = NoParams
    /\ w_trace = <<>>
    /\ w_stdout = <<>>
    /\ w_topology_file = <<>>
    /\ w_trajectory_file = <<>>
    /\ w_exit = PyNone

\* the two invocations that may run side by side
Invocations == {"A", "B"}

\* one invocation alone: no second one is running
NoPair ==
    /\ inv_pc = [i \in Invocations |-> "none"]
    /\ inv_tmp = [i \in Invocations |-> ""]
    /\ tmp_dir = {}
    /\ work_dir = <<>>
    /\ inv_found = <<>>
    /\ inv_result = <<>>

Init == LInit /\ NoWorker /\ NoPair

Spec == Init /\ [][Next]_allvars

\* a step of runMDSimulation itself (not of the child or of another process)
LauncherStep ==
    \/ GetInputs
    \/ CreateTempFile
    \/ DumpParams
    \/ BuildCommand
    \/ Spawn
    \/ ReadLine
    \/ ReadDecodeError
    \/ EndOfStream
    \/ Wait
    \/ ExitWait
    \/ Unlink
    \/ SetOutputs
    \/ HandlerCheck
    \/ HandlerUnlink

\* an invocation whose inputs let it start the child
LiveInit ==
    /\ Init
    /\ inputs = [protein_file |-> PyStr(<<"/in/protein.pdb">>),
                 ligand_file |-> PyStr(<<"/in/ligand.sdf">>)]
    /\ variables.conda_env.t = "str"

\* the launcher is a running thread: when it can take a step it takes one.
\* Nothing is assumed of the child.
SpecLive == LiveInit /\ [][Next]_allvars /\ WF_allvars(LauncherStep)


(***************************************************************************)
(* The worker script, run_md_simulation.py.                                *)
(***************************************************************************)

\* the working directory of the worker, as os.path.abspath prefixes it
CWD == "/cwd/"
OUTPUT_DIR == "output/"
STAR == "*"

\* os.path.abspath of a relative path
AbsPath(rel) == <<CWD>> \o rel

\* the input files a parameter file may name
InputPaths == { <<"/in/protein.pdb">>, <<"/in/ligand.sdf">>, <<"/in/state.xml">> }

\* run_md_simulation.py:99 and 108-113
ExpectedTopology == <<OUTPUT_DIR, "emin", ".pdb">>
AltTopoFiles ==
    << <<OUTPUT_DIR, "emin", ".pdb">>,
       <<"emin", ".pdb">>,
       <<OUTPUT_DIR, "system", ".pdb">>,
       <<"system", ".pdb">> >>

\* run_md_simulation.py:102 and 126-132
ExpectedTrajectory == <<OUTPUT_DIR, "md_", "trajetory", "_id_", "0", ".dcd">>
TrajPatterns ==
    << <<OUTPUT_DIR, "md_", "trajectory", "_id_", STAR, ".dcd">>,
       <<OUTPUT_DIR, "md_", "trajectory", STAR, ".dcd">>,
       <<OUTPUT_DIR, "trajectory", STAR, ".dcd">>,
       <<"md_", "trajectory", "_id_", STAR, ".dcd">>,
       <<"trajectory", ".dcd">> >>

\* the files the toolkit may leave under the working directory
OutputFiles ==
    { <<OUTPUT_DIR, "emin", ".pdb">>,
      <<"emin", ".pdb">>,
      <<OUTPUT_DIR, "system", ".pdb">>,
      <<"system", ".pdb">>,
      <<OUTPUT_DIR, "md_", "trajetory", "_id_", "0", ".dcd">>,
      <<OUTPUT_DIR, "md_", "trajectory", "_id_", "0", ".dcd">>,
      <<OUTPUT_DIR, "md_", "trajectory", ".dcd">>,
      <<OUTPUT_DIR, "trajectory", ".dcd">>,
      <<OUTPUT_DIR, "trajectory", "_2", ".dcd">>,
      <<"md_", "trajectory", "_id_", "0", ".dcd">>,
      <<"trajectory", ".dcd">> }

\* os.path.exists: "" never exists; a path under the working directory is
\* the file its relative name names
Exists(fs, path) ==
    IF path = <<>> THEN FALSE
    ELSE IF Head(path) = CWD THEN Tail(path) \in fs
    ELSE path \in fs

\* fnmatch of one name against one pattern: "*" stands for any run of
\* characters inside one directory level
RECURSIVE GlobMatch(_, _)
GlobMatch(pattern, name) ==
    IF pattern = <<>> THEN name = <<>>
    ELSE IF Head(pattern) = STAR
    THEN \/ GlobMatch(Tail(pattern), name)
         \/ /\ name /= <<>>
            /\ Head(name) /= OUTPUT_DIR
            /\ GlobMatch(pattern, Tail(name))
    ELSE /\ name /= <<>>
         /\ Head(name) = Head(pattern)
         /\ GlobMatch(Tail(pattern), Tail(name))

\* glob.glob(pattern): the files under the working directory that match
Glob(fs, pattern) == {f \in fs : GlobMatch(pattern, f)}

\* the records a parameter file written by the launcher may hold
ParamFiles ==
    [protein_file : {PyStr(<<>>), PyStr(<<"/in/protein.pdb">>)},
     ligand_file : {PyStr(<<>>), PyStr(<<"/in/ligand.sdf">>)},
     md_steps : MdStepsInputs,
     md_save_interval : MdSaveIntervalInputs,
     platform_name : PlatformNameInputs,
     platform_precision : PlatformPrecisionInputs,
     starting_state_path : {PyStr(<<>>), PyStr(<<"/in/state.xml">>)}]

\* main at its entry
WStart ==
    /\ w_argc \in {1, 2, 3}
    /\ w_file \in ([readable : {"ok"},
                    content : {JsonDump(r, ParamKeys) : r \in ParamFiles}]
                   \cup [readable : {"missing", "invalid"}, content : {<<>>}])
    /\ w_fs \in SUBSET InputPaths
    /\ w_pc = "start"
    /\ w_params = NoParams
    /\ w_trace = <<>>
    /\ w_stdout = <<>>
    /\ w_topology_file = <<>>
    /\ w_trajectory_file = <<>>
    /\ w_exit = PyNone

\* print(text)
Printed(lns) == w_stdout' = w_stdout \o lns

\* Fail without the sys.exit(1) of lines 162 and 168
Fail_NoExit(kind, lns) ==
    /\ Printed(lns \o << IF kind = "FileNotFoundError"
                         THEN <<"ERROR", COLON, SP, "FileNotFoundError">>
                         ELSE <<"ERROR during MD simulation", COLON, SP, kind>> >>)
    /\ UNCHANGED <<w_exit, w_pc>>

\* run_md_simulation.py:160-168: either except clause of main prints one
\* ERROR line (the traceback goes to stderr) and calls sys.exit(1)
Fail(kind, lns) ==
    /\ Printed(lns \o << IF kind = "FileNotFoundError"
                         THEN <<"ERROR", COLON, SP, "FileNotFoundError">>
                         ELSE <<"ERROR during MD simulation", COLON, SP, kind>> >>)
    /\ w_exit' = PyInt(1)
    /\ w_pc' = "exited"

\* run_md_simulation.py:21-25
CheckArgv ==
    /\ w_pc = "start"
    /\ IF w_argc /= 2
       THEN /\ Printed(<< <<"Usage", COLON, SP,
                            "python run_md_simulation.py <params_json_file>">> >>)
            /\ w_exit' = PyInt(1)
            /\ w_pc' = "exited"
       ELSE /\ w_pc' = "load"
            /\ UNCHANGED <<w_stdout, w_exit>>
    /\ UNCHANGED <<vars, tvars>>
    /\ UNCHANGED <<w_argc, w_file, w_fs, w_params, w_trace, w_topology_file,
                   w_trajectory_file>>

\* run_md_simulation.py:32-43
Banner(prm) ==
    << <<"MD Simulation Script Started">>,
       <<"=====">>,
       <<"Parameters loaded from", COLON, SP, "params_file">>,
       <<"Protein file", COLON, SP>> \o prm.protein_file.v,
       <<"Ligand file", COLON, SP>> \o prm.ligand_file.v,
       <<"MD steps", COLON, SP, "md_steps">>,
       <<"Save interval", COLON, SP, "md_save_interval">>,
       <<"Platform", COLON, SP>> \o prm.platform_name.v,
       <<"Precision", COLON, SP>> \o prm.platform_precision.v >>
    \o (IF prm.starting_state_path.v /= <<>>
        THEN << <<"Starting state", COLON, SP>> \o prm.starting_state_path.v >>
        ELSE <<>>)
    \o << <<"=====">> >>

\* run_md_simulation.py:28-43: open and json.load the parameter file, print
\* the banner
LoadParams ==
    /\ w_pc = "load"
    /\ IF w_file.readable = "missing"
       THEN /\ Fail("FileNotFoundError", <<>>)
            /\ UNCHANGED w_params
       ELSE IF w_file.readable = "invalid"
       THEN /\ Fail("JSONDecodeError", <<>>)
            /\ UNCHANGED w_params
       ELSE /\ w_params' = JsonLoad(w_file.content)
            /\ Printed(Banner(JsonLoad(w_file.content)))
            /\ w_pc' = "validate"
            /\ UNCHANGED w_exit
    /\ UNCHANGED <<vars, tvars>>
    /\ UNCHANGED <<w_argc, w_file, w_fs, w_trace, w_topology_file,
                   w_trajectory_file>>

\* Validate without the test of lines 48-49
Validate_NoLigandTest ==
    /\ w_pc = "validate"
    /\ w_trace' = Append(w_trace, "Validate")
    /\ IF \/ ~Exists(w_fs, w_params.protein_file.v)
          \/ /\ w_params.starting_state_path.v /= <<>>
             /\ ~Exists(w_fs, w_params.starting_state_path.v)
       THEN Fail("FileNotFoundError", <<>>)
       ELSE /\ w_pc' = "configure"
            /\ UNCHANGED <<w_stdout, w_exit>>
    /\ UNCHANGED <<vars, tvars>>
    /\ UNCHANGED <<w_argc, w_file, w_fs, w_params, w_topology_file,
                   w_trajectory_file>>

\* run_md_simulation.py:45-55: the three existence tests
Validate ==
    /\ w_pc = "validate"
    /\ w_trace' = Append(w_trace, "Validate")
    /\ IF \/ ~Exists(w_fs, w_params.protein_file.v)
          \/ ~Exists(w_fs, w_params.ligand_file.v)
          \/ /\ w_params.starting_state_path.v /= <<>>
             /\ ~Exists(w_fs, w_params.starting_state_path.v)
       THEN Fail("FileNotFoundError", <<>>)
       ELSE /\ w_pc' = "configure"
            /\ UNCHANGED <<w_stdout, w_exit>>
    /\ UNCHANGED <<vars, tvars>>
    /\ UNCHANGED <<w_argc, w_file, w_fs, w_params, w_topology_file,
                   w_trajectory_file>>

\* the kinds of exception a call into the toolkit may raise
ToolkitErrors == {"FileNotFoundError", "Exception"}

\* one toolkit stage of main: print the step line, call the toolkit, and
\* either print the "completed" line and go on to `next` or fail
Stage(at, name, stepLines, doneLine, next) ==
    /\ w_pc = at
    /\ w_trace' = Append(w_trace, name)
    /\ \/ /\ Printed(stepLines \o <<doneLine>>)
          /\ w_pc' = next
          /\ UNCHANGED w_exit
       \/ \E kind \in ToolkitErrors : Fail(kind, stepLines)

\* run_md_simulation.py:57-67
Configure ==
    /\ Stage("configure", "Configure",
             << <<"Step 1", COLON, SP, "Creating configuration...">> >>,
             <<"Configuration created successfully">>, "solvate")
    /\ UNCHANGED <<vars, tvars>>
    /\ UNCHANGED <<w_argc, w_file, w_fs, w_params, w_topology_file,
                   w_trajectory_file>>

\* run_md_simulation.py:69-72
Solvate ==
    /\ Stage("solvate", "Solvate",
             << <<>>, <<"Step 2", COLON, SP, "Adding water (solvation)...">> >>,
             <<"Solvation completed successfully">>, "parameterize")
    /\ UNCHANGED <<vars, tvars>>
    /\ UNCHANGED <<w_argc, w_file, w_fs, w_params, w_topology_file,
                   w_trajectory_file>>

\* run_md_simulation.py:74-77
Parameterize ==
    /\ Stage("parameterize", "Parameterize",
             << <<>>, <<"Step 3", COLON, SP, "Running force field parameterization...">> >>,
             <<"Force field parameterization completed successfully">>,
             "minimize")
    /\ UNCHANGED <<vars, tvars>>
    /\ UNCHANGED <<w_argc, w_file, w_fs, w_params, w_topology_file,
                   w_trajectory_file>>

\* run_md_simulation.py:79-82
Minimize ==
    /\ Stage("minimize", "Minimize",
             << <<>>, <<"Step 4", COLON, SP, "Running energy minimization...">> >>,
             <<"Energy minimization completed successfully">>, "simulate")
    /\ UNCHANGED <<vars, tvars>>
    /\ UNCHANGED <<w_argc, w_file, w_fs, w_params, w_topology_file,
                   w_trajectory_file>>

\* run_md_simulation.py:84-95: run_simulation.main, with the starting state
\* when one was given.  By now the toolkit has left its files under the
\* working directory.
Simulate ==
    /\ Stage("simulate", "Simulate",
             << <<>>, <<"Step 5", COLON, SP, "Running MD simulation...">> >>,
             IF w_params.starting_state_path.v /= <<>>
             THEN <<"Simulation completed successfully with initial state",
                    COLON, SP>> \o w_params.starting_state_path.v
             ELSE <<"Simulation completed successfully from minimized structure">>,
             "resolve_topology")
    /\ \E made \in SUBSET OutputFiles : w_fs' = w_fs \cup made
    /\ UNCHANGED <<vars, tvars>>
    /\ UNCHANGED <<w_argc, w_file, w_params, w_topology_file,
                   w_trajectory_file>>

\* FirstAlternative without the break of line 119: the last alternative
\* that exists
RECURSIVE FirstAlternative_Last(_, _)
FirstAlternative_Last(fs, i) ==
    IF i > Len(AltTopoFiles) THEN <<>>
    ELSE LET later == FirstAlternative_Last(fs, i + 1)
         IN  IF later /= <<>> THEN later
             ELSE IF Exists(fs, AltTopoFiles[i]) THEN AbsPath(AltTopoFiles[i])
             ELSE <<>>

\* run_md_simulation.py:114-119: the first alternative that exists, from
\* position i of the list on; "" when none does
RECURSIVE FirstAlternative(_, _)
FirstAlternative(fs, i) ==
    IF i > Len(AltTopoFiles) THEN <<>>
    ELSE IF Exists(fs, AltTopoFiles[i]) THEN AbsPath(AltTopoFiles[i])
    ELSE FirstAlternative(fs, i + 1)

\* run_md_simulation.py:97-119
ResolveTopology ==
    /\ w_pc = "resolve_topology"
    /\ w_trace' = Append(w_trace, "ResolveOutputs")
    /\ IF Exists(w_fs, AbsPath(ExpectedTopology))
       THEN /\ w_topology_file' = AbsPath(ExpectedTopology)
            /\ UNCHANGED w_stdout
       ELSE LET found == FirstAlternative(w_fs, 1)
            IN  /\ w_topology_file' = found
                /\ Printed(
                     << <<"Warning", COLON, SP,
                          "Expected topology file not found at", SP>>
                        \o AbsPath(ExpectedTopology) >>
                     \o (IF found /= <<>>
                         THEN << <<"Found topology file at", COLON, SP>>
                                 \o found >>
                         ELSE <<>>))
    /\ w_pc' = "resolve_trajectory"
    /\ UNCHANGED <<vars, tvars>>
    /\ UNCHANGED <<w_argc, w_file, w_fs, w_params, w_trajectory_file, w_exit>>

\* FirstPattern without the break of line 141: the last pattern that
\* matches
RECURSIVE FirstPattern_Last(_, _)
FirstPattern_Last(fs, i) ==
    IF i > Len(TrajPatterns) THEN 0
    ELSE LET later == FirstPattern_Last(fs, i + 1)
         IN  IF later /= 0 THEN later
             ELSE IF Glob(fs, TrajPatterns[i]) /= {} THEN i
             ELSE 0

\* run_md_simulation.py:134-141: the first pattern, from position i on,
\* that matches anything (0 when none does)
RECURSIVE FirstPattern(_, _)
FirstPattern(fs, i) ==
    IF i > Len(TrajPatterns) THEN 0
    ELSE IF Glob(fs, TrajPatterns[i]) /= {} THEN i
    ELSE FirstPattern(fs, i + 1)

\* run_md_simulation.py:102 and 121-141.  glob.glob returns its matches in
\* the order of the directory listing: matches[0] is any of them.
ResolveTrajectory ==
    /\ w_pc = "resolve_trajectory"
    /\ IF Exists(w_fs, AbsPath(ExpectedTrajectory))
       THEN /\ w_trajectory_file' = AbsPath(ExpectedTrajectory)
            /\ UNCHANGED w_stdout
       ELSE LET warning == <<"Warning", COLON, SP,
                             "Expected trajectory file not found at", SP>>
                           \o AbsPath(ExpectedTrajectory)
                i == FirstPattern(w_fs, 1)
            IN  IF i = 0
                THEN /\ w_trajectory_file' = <<>>
                     /\ Printed(<<warning>>)
                ELSE \E m \in Glob(w_fs, TrajPatterns[i]) :
                        /\ w_trajectory_file' = AbsPath(m)
                        /\ Printed(<<warning,
                                     <<"Found trajectory file at", COLON, SP>>
                                     \o AbsPath(m)>>)
    /\ w_pc' = "report"
    /\ UNCHANGED <<vars, tvars>>
    /\ UNCHANGED <<w_argc, w_file, w_fs, w_params, w_trace, w_topology_file,
                   w_exit>>

\* run_md_simulation.py:151 and 157: the placeholder texts
TopologyNotFound == <<"Not found - expected at output/emin.pdb">>
TrajectoryNotFound == <<"Not found - expected at output/md_trajectory_id_0.dcd">>

\* run_md_simulation.py:143-145
SuccessBanner ==
    << <<>>,
       <<"=====">>,
       <<"MD SIMULATION SETUP COMPLETED SUCCESSFULLY!">>,
       <<"=====">> >>

\* Report treating an output that was not found as a failure
Report_FailsWhenMissing ==
    /\ w_pc = "report"
    /\ IF /\ w_topology_file /= <<>> /\ Exists(w_fs, w_topology_file)
          /\ w_trajectory_file /= <<>> /\ Exists(w_fs, w_trajectory_file)
       THEN /\ Printed(SuccessBanner
                       \o <<TopologyPrefix \o w_topology_file,
                            TrajectoryPrefix \o w_trajectory_file>>)
            /\ w_exit' = PyInt(0)
       ELSE /\ Printed(<< <<"ERROR", COLON, SP, "FileNotFoundError">> >>)
            /\ w_exit' = PyInt(1)
    /\ w_pc' = "exited"
    /\ UNCHANGED <<vars, tvars>>
    /\ UNCHANGED <<w_argc, w_file, w_fs, w_params, w_trace, w_topology_file,
                   w_trajectory_file>>

\* Report without the os.path.exists tests of lines 148 and 153
Report_NoExistsTest ==
    /\ w_pc = "report"
    /\ Printed(
         SuccessBanner
         \o << IF w_topology_file /= <<>>
               THEN TopologyPrefix \o w_topology_file
               ELSE TopologyPrefix \o TopologyNotFound,
               IF w_trajectory_file /= <<>>
               THEN TrajectoryPrefix \o w_trajectory_file
               ELSE TrajectoryPrefix \o TrajectoryNotFound >>)
    /\ w_exit' = PyInt(0)
    /\ w_pc' = "exited"
    /\ UNCHANGED <<vars, tvars>>
    /\ UNCHANGED <<w_argc, w_file, w_fs, w_params, w_trace, w_topology_file,
                   w_trajectory_file>>

\* run_md_simulation.py:143-158 and 171-172: the banner, the two sentinel
\* lines, and the normal end of main (exit status 0)
Report ==
    /\ w_pc = "report"
    /\ Printed(
         SuccessBanner
         \o << IF w_topology_file /= <<>> /\ Exists(w_fs, w_topology_file)
               THEN TopologyPrefix \o w_topology_file
               ELSE TopologyPrefix \o TopologyNotFound,
               IF w_trajectory_file /= <<>> /\ Exists(w_fs, w_trajectory_file)
               THEN TrajectoryPrefix \o w_trajectory_file
               ELSE TrajectoryPrefix \o TrajectoryNotFound >>)
    /\ w_exit' = PyInt(0)
    /\ w_pc' = "exited"
    /\ UNCHANGED <<vars, tvars>>
    /\ UNCHANGED <<w_argc, w_file, w_fs, w_params, w_trace, w_topology_file,
                   w_trajectory_file>>

\* another process removes a file from the working directory between the
\* resolution of the outputs and the report
OutputRemovedByOther ==
    /\ w_pc \in {"resolve_trajectory", "report"}
    /\ \E f \in w_fs \cap OutputFiles : w_fs' = w_fs \ {f}
    /\ UNCHANGED <<vars, tvars>>
    /\ UNCHANGED <<w_argc, w_file, w_pc, w_params, w_trace, w_stdout,
                   w_topology_file, w_trajectory_file, w_exit>>

WNext ==
    \/ CheckArgv
    \/ LoadParams
    \/ Validate
    \/ Configure
    \/ Solvate
    \/ Parameterize
    \/ Minimize
    \/ Simulate
    \/ ResolveTopology
    \/ ResolveTrajectory
    \/ Report
    \/ OutputRemovedByOther

\* the worker alone: no launcher runs
NoLauncher ==
    /\ inputs = [protein_file |-> PyNone, ligand_file |-> PyNone]
    /\ variables = [md_steps |-> PyNone, md_save_interval |-> PyNone,
                    platform_name |-> PyNone, platform_precision |-> PyNone,
                    starting_state_path |-> PyNone, conda_env |-> PyNone]
    /\ pc = "none"
    /\ params = NoParams
    /\ tmpExists = FALSE
    /\ tmpContent = <<>>
    /\ pathBound = FALSE
    /\ tmpCreated = 0
    /\ child = "none"
    /\ spawned = 0
    /\ exit_code = PyNone
    /\ pipe = <<>>
    /\ pipeOpen = FALSE
    /\ written = 0
    /\ lines_read = <<>>
    /\ log = <<>>
    /\ topology_file = <<>>
    /\ trajectory_file = <<>>
    /\ return_code = PyNone
    /\ exc = ""
    /\ outputs = NoOutputs
    /\ emitted = <<>>
    /\ error_msg = <<>>

WInit == WStart /\ NoLauncher /\ NoPair

SpecWorker == WInit /\ [][WNext]_allvars

(***************************************************************************)
(* The launcher and the worker on the parameter file: runMDSimulation up   *)
(* to the start of the child, then main up to json.load.                   *)
(***************************************************************************)

\* input records of every shape: paths with a quote, a backslash, a colon
\* and a non-ASCII character, strings that read as JSON literals, integers
\* of one to four digits, zero and a negative one
RecordInputs ==
    [protein_file :
         {PyStr(<<"/in/protein.pdb">>), PyStr(<<>>),
          PyStr(<<"C", COLON, BACKSLASH, "my", SP, QUOTE, "dir", QUOTE,
                  BACKSLASH, NON_ASCII, ".pdb">>)},
     ligand_file :
         {PyStr(<<"/in/ligand.sdf">>), PyStr(<<BACKSLASH, NON_ASCII_ESCAPE>>),
          PyStr(<<QUOTE, COMMA, INDENT, QUOTE, "md_steps", QUOTE, COLON, SP,
                  "1">>)}]

RecordVariables ==
    [md_steps : {PyInt(0), PyInt(7), PyInt(10), PyInt(1000), PyInt(-5)},
     md_save_interval : {PyInt(1), PyInt(105)},
     platform_name : {PyStr(<<"CPU">>), PyStr(<<NULL>>)},
     platform_precision : {PyStr(<<"mixed">>), PyStr(<<"1", "0">>)},
     starting_state_path : {PyStr(<<>>), PyStr(<<"/in/state.xml">>)},
     conda_env : {PyStr(<<"easymd">>)}]

\* easymd.py:136-169 and run_md_simulation.py:20-25: the child is the
\* worker, started with the path of the parameter file as its argument
WorkerStarts ==
    /\ pc = "read"
    /\ child = "running"
    /\ w_pc = "none"
    /\ w_argc' = 2
    /\ w_file' = IF tmpExists
                 THEN [readable |-> "ok", content |-> tmpContent]
                 ELSE [readable |-> "missing", content |-> <<>>]
    /\ \E fs \in SUBSET InputPaths : w_fs' = fs
    /\ w_pc' = "start"
    /\ UNCHANGED <<vars, tvars>>
    /\ UNCHANGED <<w_params, w_trace, w_stdout, w_topology_file,
                   w_trajectory_file, w_exit>>

ParamsInit ==
    /\ inputs \in RecordInputs
    /\ variables \in RecordVariables
    /\ AtEntry
    /\ NoWorker
    /\ NoPair

ParamsNext ==
    \/ GetInputs
    \/ CreateTempFile
    \/ DumpParams
    \/ BuildCommand
    \/ Spawn
    \/ RemovedByOther
    \/ WorkerStarts
    \/ CheckArgv
    \/ LoadParams

SpecParams == ParamsInit /\ [][ParamsNext]_allvars

(***************************************************************************)
(* Two invocations of runMDSimulation at the same time, each with its own  *)
(* worker.  tempfile gives each its own parameter file; the workers are    *)
(* started without cwd= (easymd.py:162-169), so both run in the working    *)
(* directory of the host and resolve the same relative output paths        *)
(* (run_md_simulation.py:99-141).  Both are given valid inputs.            *)
(***************************************************************************)

\* names tempfile may pick in the temporary directory
TempNames == {"/tmp/tmpa.json", "/tmp/tmpb.json", "/tmp/tmpc.json"}

\* the output files the toolkit may write under the working directory
PairFiles ==
    { ExpectedTopology,
      <<OUTPUT_DIR, "system", ".pdb">>,
      <<OUTPUT_DIR, "md_", "trajectory", "_id_", "0", ".dcd">> }

\* the files of the working directory that exist
Present(dir) == {f \in DOMAIN dir : dir[f] /= "none"}

\* the invocation whose worker wrote the file of this absolute path last
WriterOf(dir, path) == IF path = <<>> THEN "none" ELSE dir[Tail(path)]

NothingFound ==
    [topology_file |-> <<>>, trajectory_file |-> <<>>,
     topology_by |-> "none", trajectory_by |-> "none"]

\* both invocations at line 124, with valid inputs
PairAtEntry ==
    /\ inv_pc = [i \in Invocations |-> "create_tmp"]
    /\ inv_tmp = [i \in Invocations |-> ""]
    /\ tmp_dir = {}
    /\ work_dir = [f \in PairFiles |-> "none"]
    /\ inv_found = [i \in Invocations |-> NothingFound]
    /\ inv_result = [i \in Invocations |-> NoOutputs]

\* easymd.py:126-130: NamedTemporaryFile creates a file of a name that is
\* not in use (O_EXCL), json.dump writes it
PairCreateTempFile(i) ==
    /\ inv_pc[i] = "create_tmp"
    /\ \E name \in TempNames \ tmp_dir :
         /\ inv_tmp' = [inv_tmp EXCEPT ![i] = name]
         /\ tmp_dir' = tmp_dir \cup {name}
    /\ inv_pc' = [inv_pc EXCEPT ![i] = "spawn"]
    /\ UNCHANGED <<vars, wvars, work_dir, inv_found, inv_result>>

\* easymd.py:136-169: the worker is started on param_file_path, in the
\* working directory of the host
PairSpawn(i) ==
    /\ inv_pc[i] = "spawn"
    /\ inv_pc' = [inv_pc EXCEPT ![i] = "load"]
    /\ UNCHANGED <<vars, wvars, inv_tmp, tmp_dir, work_dir, inv_found,
                   inv_result>>

\* run_md_simulation.py:25-30: the worker opens the file it was given
PairLoadParams(i) ==
    /\ inv_pc[i] = "load"
    /\ inv_pc' = [inv_pc EXCEPT ![i] = IF inv_tmp[i] \in tmp_dir
                                      THEN "pipeline"
                                      ELSE "child_failed"]
    /\ UNCHANGED <<vars, wvars, inv_tmp, tmp_dir, work_dir, inv_found,
                   inv_result>>

\* run_md_simulation.py:57-95: the five toolkit calls write output files
\* under output/ of the working directory, replacing what is there, or
\* one of them raises
PairPipeline(i) ==
    /\ inv_pc[i] = "pipeline"
    /\ \/ /\ \E made \in SUBSET PairFiles :
               work_dir' = [f \in PairFiles |->
                               IF f \in made THEN i ELSE work_dir[f]]
          /\ inv_pc' = [inv_pc EXCEPT ![i] = "resolve"]
       \/ /\ inv_pc' = [inv_pc EXCEPT ![i] = "child_failed"]
          /\ UNCHANGED work_dir
    /\ UNCHANGED <<vars, wvars, inv_tmp, tmp_dir, inv_found, inv_result>>

\* run_md_simulation.py:97-141: the topology and the trajectory, looked up
\* by their relative paths
PairResolve(i) ==
    /\ inv_pc[i] = "resolve"
    /\ LET fs == Present(work_dir)
           topology == IF Exists(fs, AbsPath(ExpectedTopology))
                       THEN AbsPath(ExpectedTopology)
                       ELSE FirstAlternative(fs, 1)
           pattern == FirstPattern(fs, 1)
       IN  \E trajectory \in
                 IF Exists(fs, AbsPath(ExpectedTrajectory))
                 THEN {AbsPath(ExpectedTrajectory)}
                 ELSE IF pattern = 0 THEN {<<>>}
                 ELSE {AbsPath(m) : m \in Glob(fs, TrajPatterns[pattern])} :
             inv_found' = [inv_found EXCEPT ![i] =
                 [topology_file |-> topology,
                  trajectory_file |-> trajectory,
                  topology_by |-> WriterOf(work_dir, topology),
                  trajectory_by |-> WriterOf(work_dir, trajectory)]]
    /\ inv_pc' = [inv_pc EXCEPT ![i] = "report"]
    /\ UNCHANGED <<vars, wvars, inv_tmp, tmp_dir, work_dir, inv_result>>

\* run_md_simulation.py:147-158 and easymd.py:172-186: the worker prints
\* the two sentinel lines and exits with 0; the launcher captures them
PairReport(i) ==
    /\ inv_pc[i] = "report"
    /\ inv_pc' = [inv_pc EXCEPT ![i] = "unlink"]
    /\ UNCHANGED <<vars, wvars, inv_tmp, tmp_dir, work_dir, inv_found,
                   inv_result>>

\* easymd.py:189: os.unlink(param_file_path)
PairUnlink(i) ==
    /\ inv_pc[i] = "unlink"
    /\ tmp_dir' = tmp_dir \ {inv_tmp[i]}
    /\ inv_pc' = [inv_pc EXCEPT ![i] = IF inv_tmp[i] \in tmp_dir
                                      THEN "set_outputs"
                                      ELSE "raised"]
    /\ UNCHANGED <<vars, wvars, inv_tmp, work_dir, inv_found, inv_result>>

\* easymd.py:192-197
PairSetOutputs(i) ==
    /\ inv_pc[i] = "set_outputs"
    /\ inv_result' = [inv_result EXCEPT ![i] =
           [topology_output |-> PyStr(inv_found[i].topology_file),
            trajectory_output |-> PyStr(inv_found[i].trajectory_file)]]
    /\ inv_pc' = [inv_pc EXCEPT ![i] = "returned"]
    /\ UNCHANGED <<vars, wvars, inv_tmp, tmp_dir, work_dir, inv_found>>

\* easymd.py:183-186 and 199-207: the worker exited with 1; the launcher
\* removes its parameter file if it exists and raises
PairChildFailed(i) ==
    /\ inv_pc[i] = "child_failed"
    /\ tmp_dir' = tmp_dir \ {inv_tmp[i]}
    /\ inv_pc' = [inv_pc EXCEPT ![i] = "raised"]
    /\ UNCHANGED <<vars, wvars, inv_tmp, work_dir, inv_found, inv_result>>

PairNext ==
    \/ \E i \in Invocations : PairCreateTempFile(i)
    \/ \E i \in Invocations : PairSpawn(i)
    \/ \E i \in Invocations : PairLoadParams(i)
    \/ \E i \in Invocations : PairPipeline(i)
    \/ \E i \in Invocations : PairResolve(i)
    \/ \E i \in Invocations : PairReport(i)
    \/ \E i \in Invocations : PairUnlink(i)
    \/ \E i \in Invocations : PairSetOutputs(i)
    \/ \E i \in Invocations : PairChildFailed(i)

PairInit == PairAtEntry /\ NoLauncher /\ NoWorker

SpecPair == PairInit /\ [][PairNext]_allvars

(***************************************************************************)
(* Properties of the launcher, checked under Spec.                         *)
(***************************************************************************)

\* runMDSimulation has returned or raised
Terminated == pc \in {"returned", "raised"}

MissingInput == inputs.protein_file = PyNone \/ inputs.ligand_file = PyNone

\* the child has exited with a non-zero status
ChildFailed == exit_code.t = "int" /\ exit_code.v /= 0

\* C1: on every exit path of runMDSimulation (return or raise) the
\* temporary parameter file of the invocation is not on disk.
C1_TempFileGoneOnEveryExit ==
    Terminated => ~tmpExists

\* C2: with the protein or the ligand input missing, runMDSimulation raises
\* with no child process spawned, no temporary file created and no output
\* set.
C2_MissingInputRaisesFirst ==
    MissingInput =>
        /\ pc \in {"start", "raised"}
        /\ spawned = 0
        /\ tmpCreated = 0
        /\ ~tmpExists
        /\ outputs = NoOutputs

C2_Witness ==
    /\ pc = "raised"
    /\ inputs.protein_file /= PyNone
    /\ inputs.ligand_file = PyNone

\* C3: when the child has exited with a code other than 0, runMDSimulation
\* ends by raising and the temporary parameter file is gone.
C3_ChildFailureRaisesAndCleans ==
    (Terminated /\ ChildFailed) => (pc = "raised" /\ ~tmpExists)

C3_Witness ==
    /\ pc = "raised"
    /\ return_code.t = "int"
    /\ return_code.v /= 0
    /\ tmpCreated = 1
    /\ lines_read /= <<>>

\* C4: whenever p.wait() has returned 0, runMDSimulation returns without
\* raising, with the temporary file removed and both outputs set to the
\* captured values, also when the file was already removed before cleanup.
C4_ExitZeroReturnsOutputs ==
    (Terminated /\ return_code = PyInt(0)) =>
        /\ pc = "returned"
        /\ ~tmpExists
        /\ outputs = [topology_output |-> PyStr(topology_file),
                      trajectory_output |-> PyStr(trajectory_file)]

\* C5: block.setOutput is called only after the child's exit code was seen
\* to be 0: never when the child failed or when no child was spawned.
C5_OutputsOnlyAfterExitZero ==
    /\ (ChildFailed \/ spawned = 0) => outputs = NoOutputs
    /\ outputs /= NoOutputs => (return_code = PyInt(0) /\ exit_code = PyInt(0))

C5_Witness ==
    /\ pc = "raised"
    /\ ChildFailed
    /\ topology_file /= <<>>
    /\ trajectory_file /= <<>>
    /\ outputs = NoOutputs

\* the text of s after its first colon, with the whitespace at both ends
\* cut off (stated on positions, independently of the read loop)
ValueOf(s) ==
    LET colons == {i \in 1..Len(s) : s[i] = COLON}
        first == CHOOSE i \in colons : \A j \in colons : i <= j
        solid == {i \in (first + 1)..Len(s) : s[i] /= SP}
        lo == CHOOSE i \in solid : \A j \in solid : i <= j
        hi == CHOOSE i \in solid : \A j \in solid : j <= i
    IN  IF solid = {} THEN <<>> ELSE SubSeq(s, lo, hi)

\* the value of the last line of ls that begins with prefix, "" if none
LastValue(ls, prefix) ==
    LET hits == {i \in 1..Len(ls) : StartsWith(ls[i], prefix)}
        last == CHOOSE i \in hits : \A j \in hits : j <= i
    IN  IF hits = {} THEN <<>> ELSE ValueOf(ls[last])

\* C6: the value reported for each key is the trimmed text after the first
\* colon of the last line read that begins with the key's prefix, and the
\* empty string when no line does.
C6_LastSentinelWins ==
    outputs /= NoOutputs =>
        /\ outputs.topology_output =
               PyStr(LastValue(lines_read, TopologyPrefix))
        /\ outputs.trajectory_output =
               PyStr(LastValue(lines_read, TrajectoryPrefix))

C6_Witness ==
    /\ pc = "returned"
    /\ Len(lines_read) = 2
    /\ StartsWith(lines_read[1], TopologyPrefix)
    /\ StartsWith(lines_read[2], TopologyPrefix)
    /\ outputs.topology_output.v = ValueOf(lines_read[2])
    /\ outputs.topology_output.v /= ValueOf(lines_read[1])
    /\ outputs.trajectory_output.v = <<>>

\* C7: in the read loop a line with neither prefix leaves both captured
\* values unchanged, a TOPOLOGY_FILE: line leaves the captured trajectory
\* unchanged and a TRAJECTORY_FILE: line leaves the captured topology
\* unchanged.
C7_ReadLoopFrame ==
    [][Len(lines_read') = Len(lines_read) + 1 =>
        LET line == lines_read'[Len(lines_read')]
            topo == StartsWith(line, TopologyPrefix)
            traj == StartsWith(line, TrajectoryPrefix)
        IN  /\ (~topo /\ ~traj) =>
                   /\ topology_file' = topology_file
                   /\ trajectory_file' = trajectory_file
            /\ topo => trajectory_file' = trajectory_file
            /\ traj => topology_file' = topology_file]_allvars

C7_Witness ==
    /\ Len(lines_read) = 2
    /\ StartsWith(lines_read[1], TrajectoryPrefix)
    /\ ~StartsWith(lines_read[2], TopologyPrefix)
    /\ ~StartsWith(lines_read[2], TrajectoryPrefix)
    /\ lines_read[2] /= <<>>
    /\ trajectory_file /= <<>>
    /\ topology_file = <<>>

\* C8: once a child has been spawned, the parameter record written for it
\* has a non-empty protein_file and a non-empty ligand_file.
C8_SpawnedRecordHasPaths ==
    spawned > 0 =>
        /\ JsonLoad(tmpContent).protein_file.v /= <<>>
        /\ JsonLoad(tmpContent).ligand_file.v /= <<>>

(***************************************************************************)
(* Properties of the worker, checked under SpecWorker.                     *)
(***************************************************************************)

\* the stages of main, in the order of the script
StageOrder ==
    <<"Validate", "Configure", "Solvate", "Parameterize", "Minimize",
      "Simulate", "ResolveOutputs">>

\* the stages that call into the toolkit
PipelineStages ==
    {"Configure", "Solvate", "Parameterize", "Minimize", "Simulate"}

IsPrefix(s, t) == Len(s) <= Len(t) /\ s = SubSeq(t, 1, Len(s))

\* an error report is among the printed lines
ErrorReported ==
    \E i \in 1..Len(w_stdout) :
        /\ w_stdout[i] /= <<>>
        /\ Head(w_stdout[i]) \in {"ERROR", "ERROR during MD simulation"}

\* the parameter file names an input file that is not on disk
NamesMissingInput ==
    /\ w_file.readable = "ok"
    /\ LET given == JsonLoad(w_file.content)
       IN  \/ given.protein_file.v \notin w_fs
           \/ given.ligand_file.v \notin w_fs
           \/ /\ given.starting_state_path.v /= <<>>
              /\ given.starting_state_path.v \notin w_fs

\* C9: when the parameter file names a protein or ligand file that does not
\* exist, or a non-empty starting-state file that does not exist, the
\* worker invokes no pipeline stage and its exit code is 1.
C9_MissingFileExitsBeforePipeline ==
    NamesMissingInput =>
        /\ \A i \in 1..Len(w_trace) : w_trace[i] \notin PipelineStages
        /\ w_pc \in {"start", "load", "validate", "exited"}
        /\ w_pc = "exited" => w_exit = PyInt(1)

C9_Witness ==
    /\ w_pc = "exited"
    /\ w_argc = 2
    /\ w_file.readable = "ok"
    /\ JsonLoad(w_file.content).protein_file.v \in w_fs
    /\ JsonLoad(w_file.content).ligand_file.v \notin w_fs
    /\ JsonLoad(w_file.content).ligand_file.v /= <<>>
    /\ w_trace = <<"Validate">>
    /\ w_exit = PyInt(1)

\* C10: the stages are entered only in the order Validate, Configure,
\* Solvate, Parameterize, Minimize, Simulate, ResolveOutputs, each at most
\* once; once a stage has failed the error is reported and the worker has
\* exited non-zero, so no later stage runs and none is retried; exit 0
\* comes only after all of them.
C10_StagesInOrderNoRetry ==
    /\ IsPrefix(w_trace, StageOrder)
    /\ ErrorReported => (w_pc = "exited" /\ w_exit.t = "int" /\ w_exit.v /= 0)
    /\ w_exit = PyInt(0) => (w_trace = StageOrder /\ ~ErrorReported)
    /\ (w_exit.t = "int" /\ w_exit.v /= 0 /\ w_trace /= <<>>) => ErrorReported

C10_Witness ==
    /\ w_pc = "exited"
    /\ w_exit = PyInt(1)
    /\ ErrorReported
    /\ w_trace = <<"Validate", "Configure", "Solvate", "Parameterize">>

\* the positions of the printed lines that begin with prefix
SentinelLines(prefix) ==
    {i \in 1..Len(w_stdout) : StartsWith(w_stdout[i], prefix)}

\* all five pipeline stages have succeeded
PipelineSucceeded ==
    \/ w_pc = "resolve_topology"
    \/ w_trace = StageOrder

\* C11: when all five pipeline stages have succeeded, the worker ends with
\* exit code 0 having printed exactly one TOPOLOGY_FILE: line and after it
\* exactly one TRAJECTORY_FILE: line, each carrying the resolved path or
\* the "Not found" placeholder, whichever output files exist.
C11_SuccessPrintsBothSentinels ==
    PipelineSucceeded =>
        /\ w_exit \in {PyNone, PyInt(0)}
        /\ w_pc = "exited" =>
            /\ w_exit = PyInt(0)
            /\ Cardinality(SentinelLines(TopologyPrefix)) = 1
            /\ Cardinality(SentinelLines(TrajectoryPrefix)) = 1
            /\ \A i \in SentinelLines(TopologyPrefix) :
                 /\ \A j \in SentinelLines(TrajectoryPrefix) : i < j
                 /\ \/ /\ w_topology_file /= <<>>
                       /\ w_stdout[i] = TopologyPrefix \o w_topology_file
                    \/ w_stdout[i] = TopologyPrefix \o TopologyNotFound
            /\ \A j \in SentinelLines(TrajectoryPrefix) :
                 \/ /\ w_trajectory_file /= <<>>
                    /\ w_stdout[j] = TrajectoryPrefix \o w_trajectory_file
                 \/ w_stdout[j] = TrajectoryPrefix \o TrajectoryNotFound

C11_Witness ==
    /\ w_pc = "exited"
    /\ w_exit = PyInt(0)
    /\ w_stdout[Len(w_stdout) - 1] = TopologyPrefix \o TopologyNotFound
    /\ w_stdout[Len(w_stdout)] =
           TrajectoryPrefix \o AbsPath(<<OUTPUT_DIR, "trajectory", ".dcd">>)

SystemPdb == <<OUTPUT_DIR, "system", ".pdb">>

\* C12 as stated: with output/emin.pdb absent and output/system.pdb
\* present, the topology resolves to the absolute path of
\* output/system.pdb.
C12_SystemPdbWhenExpectedAbsent ==
    [][(/\ w_pc = "resolve_topology"
        /\ w_pc' = "resolve_trajectory"
        /\ ExpectedTopology \notin w_fs
        /\ SystemPdb \in w_fs)
       => w_topology_file' = AbsPath(SystemPdb)]_allvars

\* C12, amended: with output/emin.pdb absent, emin.pdb absent from the
\* working directory and output/system.pdb present, the topology resolves
\* to the absolute path of output/system.pdb.
C12_SystemPdbWhenEarlierAbsent ==
    [][(/\ w_pc = "resolve_topology"
        /\ w_pc' = "resolve_trajectory"
        /\ ExpectedTopology \notin w_fs
        /\ <<"emin", ".pdb">> \notin w_fs
        /\ SystemPdb \in w_fs)
       => w_topology_file' = AbsPath(SystemPdb)]_allvars

C12_Witness ==
    /\ w_pc = "resolve_trajectory"
    /\ w_topology_file = AbsPath(SystemPdb)
    /\ <<"system", ".pdb">> \in w_fs
    /\ w_stdout[Len(w_stdout)] =
           <<"Found topology file at", COLON, SP>> \o AbsPath(SystemPdb)

\* C13 as stated: with the expected trajectory absent, nothing matching
\* output/md_trajectory_id_*.dcd and exactly one file matching
\* output/trajectory*.dcd, the trajectory resolves to that file.
C13_TrajectoryPatternThree ==
    [][(/\ w_pc = "resolve_trajectory"
        /\ w_pc' = "report"
        /\ ExpectedTrajectory \notin w_fs
        /\ Glob(w_fs, TrajPatterns[1]) = {}
        /\ Cardinality(Glob(w_fs, TrajPatterns[3])) = 1)
       => \E m \in Glob(w_fs, TrajPatterns[3]) :
              w_trajectory_file' = AbsPath(m)]_allvars

\* C13, amended: with the expected trajectory absent, nothing matching
\* output/md_trajectory*.dcd (so nothing matching
\* output/md_trajectory_id_*.dcd either) and exactly one file matching
\* output/trajectory*.dcd, the trajectory resolves to that file.
C13_TrajectoryPatternThreeAmended ==
    [][(/\ w_pc = "resolve_trajectory"
        /\ w_pc' = "report"
        /\ ExpectedTrajectory \notin w_fs
        /\ Glob(w_fs, TrajPatterns[1]) = {}
        /\ Glob(w_fs, TrajPatterns[2]) = {}
        /\ Cardinality(Glob(w_fs, TrajPatterns[3])) = 1)
       => \E m \in Glob(w_fs, TrajPatterns[3]) :
              w_trajectory_file' = AbsPath(m)]_allvars

C13_Witness ==
    /\ w_pc = "report"
    /\ w_trajectory_file = AbsPath(<<OUTPUT_DIR, "trajectory", "_2", ".dcd">>)
    /\ <<"trajectory", ".dcd">> \in w_fs
    /\ <<"md_", "trajectory", "_id_", "0", ".dcd">> \in w_fs
    /\ w_stdout[Len(w_stdout)] =
           <<"Found trajectory file at", COLON, SP>> \o w_trajectory_file

\* the text a sentinel line carries after its prefix
Carried(line) == SubSeq(line, 3, Len(line))

\* C20: the worker prints a sentinel line only after all five pipeline
\* stages have succeeded, a run that exits non-zero has printed none, and
\* the text a sentinel line carries is the placeholder or a path that
\* exists when it is printed.
C20_SentinelsOnlyAfterSuccess ==
    LET topo == SentinelLines(TopologyPrefix)
        traj == SentinelLines(TrajectoryPrefix)
    IN  /\ (w_exit.t = "int" /\ w_exit.v /= 0) => (topo \cup traj = {})
        /\ (topo \cup traj /= {}) => (w_trace = StageOrder /\ ~ErrorReported)
        /\ \A i \in topo :
             \/ Carried(w_stdout[i]) = TopologyNotFound
             \/ Exists(w_fs, Carried(w_stdout[i]))
        /\ \A j \in traj :
             \/ Carried(w_stdout[j]) = TrajectoryNotFound
             \/ Exists(w_fs, Carried(w_stdout[j]))

C20_Witness ==
    /\ w_pc = "exited"
    /\ w_exit = PyInt(0)
    /\ w_topology_file = AbsPath(ExpectedTopology)
    /\ ExpectedTopology \notin w_fs
    /\ w_stdout[Len(w_stdout) - 1] = TopologyPrefix \o TopologyNotFound
    /\ w_stdout[Len(w_stdout)] = TrajectoryPrefix \o w_trajectory_file

\* s occurs in t as a run of consecutive tokens
Contains(t, s) ==
    \E i \in 0..(Len(t) - Len(s)) : SubSeq(t, i + 1, i + Len(s)) = s

\* C15: the lines the read loop takes are the lines the child wrote, in
\* the order it wrote them, none dropped or duplicated; each is echoed once
\* with its trailing whitespace removed; when the loop has ended by end of
\* stream every line written has been taken.
C15_LinesObservedInEmissionOrder ==
    /\ IsPrefix(lines_read, emitted)
    /\ Len(log) = Len(lines_read)
    /\ \A i \in 1..Len(log) : log[i] = RStrip(lines_read[i])
    /\ pc \in {"read", "wait"} => emitted = lines_read \o pipe
    /\ pc \in {"wait", "unlink", "set_outputs", "returned"}
           => lines_read = emitted

C15_Witness ==
    /\ pc = "wait"
    /\ Len(emitted) = 2
    /\ emitted[1] /= emitted[2]
    /\ lines_read = emitted
    /\ log[1] /= lines_read[1]

\* C17: when the child exits with a non-zero code, the exception
\* runMDSimulation raises names the status and holds the lines the child
\* printed.
C17_FailureMessageCarriesOutput ==
    (pc = "raised" /\ exc = "Exception" /\ return_code.t = "int"
       /\ return_code.v /= 0)
    => /\ Contains(error_msg, NatToStr(IF return_code.v < 0
                                       THEN 0 - return_code.v
                                       ELSE return_code.v))
       /\ \A i \in 1..Len(log) : Contains(error_msg, log[i])

\* C18: once the child is spawned runMDSimulation neither returns nor
\* raises before the child has exited, and once the child has exited (which
\* closes its end of the stream) runMDSimulation eventually returns or
\* raises.
C18_BlocksUntilChildExitsThenEnds ==
    /\ []((Terminated /\ spawned > 0) => child = "exited")
    /\ ((child = "exited") ~> Terminated)

C18_Witness ==
    /\ pc = "raised"
    /\ spawned = 1
    /\ child = "exited"
    /\ lines_read /= emitted

\* C19: no step of runMDSimulation removes the temporary parameter file
\* while the child is running.
C19_NoUnlinkWhileChildRuns ==
    [][(tmpExists /\ ~tmpExists' /\ pc' /= pc)
       => (child /= "running" /\ child' /= "running")]_allvars

C19_Witness ==
    /\ pc = "set_outputs"
    /\ ~tmpExists
    /\ spawned = 1
    /\ child = "exited"
    /\ written > 0

(***************************************************************************)
(* Properties of the parameter file, checked under SpecParams.             *)
(***************************************************************************)

\* the elements of a sequence
Range(seq) == {seq[i] : i \in DOMAIN seq}

\* C16: the parameter file the launcher writes has exactly the seven keys
\* protein_file, ligand_file, md_steps, md_save_interval, platform_name,
\* platform_precision, starting_state_path, and the record the worker
\* reads from it equals the launcher's record, in type and in value.
C16_ParameterFileRoundTrip ==
    /\ tmpContent /= <<>> =>
        /\ Len(ParseMembers(Tail(tmpContent))) = Len(ParamKeys)
        /\ DOMAIN JsonLoad(tmpContent) = Range(ParamKeys)
    /\ w_pc = "validate" =>
        /\ DOMAIN w_params = Range(ParamKeys)
        /\ \A k \in Range(ParamKeys) :
             /\ w_params[k].t = params[k].t
             /\ w_params[k].v = params[k].v

C16_Witness ==
    /\ w_pc = "validate"
    /\ w_params.md_steps = PyInt(-5)
    /\ w_params.md_save_interval = PyInt(105)
    /\ w_params.platform_name = PyStr(<<NULL>>)
    /\ w_params.platform_precision = PyStr(<<"1", "0">>)
    /\ w_params.starting_state_path = PyStr(<<>>)
    /\ Len(w_params.protein_file.v) > 1
    /\ Len(w_params.ligand_file.v) > 2

(***************************************************************************)
(* Properties of two invocations side by side, checked under SpecPair.     *)
(***************************************************************************)

\* the invocation has its parameter file and has not removed it yet
PairLive(i) ==
    inv_pc[i] \in {"spawn", "load", "pipeline", "resolve", "report", "unlink",
                   "child_failed"}

\* C14: two invocations running at the same time have distinct parameter
\* files, neither removes the file of the other, and the pair of paths an
\* invocation reports names files of its own worker, never a file the
\* worker of the other invocation wrote.
C14_InvocationsIndependent ==
    \A i \in Invocations :
        /\ \A j \in Invocations \ {i} :
             (PairLive(i) /\ PairLive(j)) => inv_tmp[i] /= inv_tmp[j]
        /\ PairLive(i) => inv_tmp[i] \in tmp_dir
        /\ inv_pc[i] = "returned" =>
             /\ inv_found[i].topology_by \in {"none", i}
             /\ inv_found[i].trajectory_by \in {"none", i}


=============================================================================
